---- MODULE Spec2Model ----
\* Model of the two configuration validation scripts of imposter-go:
\*   src/tools/validate_config/validate_configs.py  (script = "tools")
\*   src/validate_configs.py                        (script = "legacy")
\* One behaviour is one run of one script over one directory tree.  The file
\* system (schema files, directory tree) is fixed at Init; the content of a
\* config file is read when the file is opened.  The jsonschema and yaml
\* libraries are represented by their outcomes: a parse either yields the
\* document sequence or raises, validating a document either returns, raises
\* ValidationError, or raises another exception (unresolvable reference).
\* The legacy script ends while its module is loaded: its schema literal
\* names "true" (line 319), which raises NameError, so its main and its
\* validate_config_file never run.
EXTENDS Naturals, Sequences, FiniteSets

\* ------------------------------------------------------------------ bounds
MaxFiles == 2
MaxDocs == 2
MaxViolations == 2
MaxRefLen == 5

\* ------------------------------------------------------------ value spaces
Paths == 1..MaxFiles
Suffixes == {"-config.yaml", "-config.yml", ".yaml"}
FileStates == {"ok", "missing", "malformed"}

SharedKey == <<"shared-definitions.json">>
None == "None"

\* A reference string after urlparse: scheme and path; the path is a sequence
\* of tokens, "/" being the path separator.  An empty path with an empty
\* scheme is a same-document pointer (#/...).
FragmentRef == [scheme |-> "", path |-> <<>>]
DocRefs ==
    { FragmentRef,
      [scheme |-> "", path |-> SharedKey],
      [scheme |-> "", path |-> <<"/">> \o SharedKey],
      [scheme |-> "", path |-> <<"missing.json">>] }

\* One YAML document: null (empty segment), or a value with the number of
\* independent violations of the run's schema it holds and the schema
\* reference the evaluator looks up before it meets the first of them.  The
\* evaluator walks schema and document lazily and validate() raises at the
\* first failure it meets: a reference that lies behind a violation is never
\* looked up, so such a document has the same-document pointer as its ref.
Null == [kind |-> "null", violations |-> 0, ref |-> FragmentRef]
DocValues ==
    {Null}
    \cup { [kind |-> "value", violations |-> k, ref |-> r] :
             k \in 0..MaxViolations, r \in DocRefs }

DocSeqs == UNION { [1..n -> DocValues] : n \in 0..MaxDocs }

\* What open() and the YAML parser find in a config file.
FileContents ==
    { [wellformed |-> FALSE, docs |-> <<>>] }
    \cup { [wellformed |-> TRUE, docs |-> d] : d \in DocSeqs }

VARIABLES
    script,        \* which of the two scripts runs
    args_schema,   \* --schema given (tools)
    schemaFile,    \* state of the base schema file
    sharedFile,    \* state of shared-definitions.json
    dirExists,     \* the target directory exists
    tree,          \* suffix of each path under the directory
    pc, exited, exit_code, stdout,
    config_files,  \* result of discovery
    pending,       \* rest of the iteration in main's sum(...)
    results,       \* one record per validate_config_file call that returned
    file_path, documents, idx, all_valid,
    validated,     \* 1-based positions handed to validator.validate
    lines,         \* what validate_config_file printed for file_path
    exc,           \* exception in flight / last handled for file_path
    store, storeBuilds,
    arg_uri,       \* argument of the last call of custom_uri_handler
    resolved       \* what that call returned

env == <<script, args_schema, schemaFile, sharedFile, dirExists, tree>>
run == <<pc, exited, exit_code, stdout, config_files, pending, results>>
call == <<file_path, documents, idx, all_valid, validated, lines, exc, store, storeBuilds>>
handler == <<arg_uri, resolved>>
vars == <<env, run, call, handler>>

\* ----------------------------------------------------------------- helpers
Last(s) == s[Len(s)]

Range(s) == { s[k] : k \in 1..Len(s) }

Orderings(S) ==
    { s \in [1..Cardinality(S) -> S] : \A a, b \in 1..Cardinality(S) : a # b => s[a] # s[b] }

Msg(kind) == [kind |-> kind, valid |-> 0, total |-> 0]

Line(file, kind, doc, errors, detail) ==
    [kind |-> kind, file |-> file, doc |-> doc, errors |-> errors, detail |-> detail]

\* The line validate_config_file prints when it returns, with its return
\* value: the file, "valid" / "invalid" / "error", and the exception printed.
Result(file, verdict, outcome, detail) ==
    [file |-> file, verdict |-> verdict, outcome |-> outcome, detail |-> detail]

\* ------------------------------------------------------- reference lookup
\* A reference string, as custom_uri_handler receives it: a sequence of
\* tokens, each a run of characters of the string.  "/", ":" and "#" are the
\* delimiters; the other tokens are names made of scheme characters
\* (letters, digits, "+", "-", "."), starting with a letter.
RefTokens == {"shared-definitions.json", "http", "/", ":", "#"}
RefStrings == UNION { [1..n -> RefTokens] : n \in 0..MaxRefLen }
NotCalled == "not called"

IsSchemeToken(t) == t \notin {"/", ":", "#"}

\* Index of the first token of s that is in D, Len(s) + 1 when there is none.
FirstOf(s, D) ==
    IF \E k \in 1..Len(s) : s[k] \in D
    THEN CHOOSE k \in 1..Len(s) : s[k] \in D /\ \A h \in 1..(k - 1) : s[h] \notin D
    ELSE Len(s) + 1

\* The characters of a token sequence, as one string.
RECURSIVE Join(_)
Join(s) == IF s = <<>> THEN "" ELSE Head(s) \o Join(Tail(s))

\* urllib.parse.urlparse: the scheme is what precedes the first ":" when
\* that is a non-empty run of scheme characters; a rest that begins with
\* "//" gives the netloc, up to the next "/" or "#"; the fragment follows
\* the first "#"; what is left is the path.
urlparse(url) ==
    LET colon     == FirstOf(url, {":"})
        hasScheme == /\ colon > 1
                     /\ colon <= Len(url)
                     /\ \A k \in 1..(colon - 1) : IsSchemeToken(url[k])
        rest      == IF hasScheme THEN SubSeq(url, colon + 1, Len(url)) ELSE url
        hasNetloc == Len(rest) >= 2 /\ rest[1] = "/" /\ rest[2] = "/"
        afterSl   == IF hasNetloc THEN SubSeq(rest, 3, Len(rest)) ELSE rest
        netEnd    == FirstOf(afterSl, {"/", "#"})
        netloc    == IF hasNetloc THEN SubSeq(afterSl, 1, netEnd - 1) ELSE <<>>
        rest2     == IF hasNetloc THEN SubSeq(afterSl, netEnd, Len(afterSl)) ELSE rest
        hash      == FirstOf(rest2, {"#"})
    IN  [scheme   |-> IF hasScheme THEN Join(SubSeq(url, 1, colon - 1)) ELSE "",
         netloc   |-> netloc,
         path     |-> SubSeq(rest2, 1, hash - 1),
         fragment |-> SubSeq(rest2, hash + 1, Len(rest2))]

\* Variant: one leading separator removed at most.
lstrip_FirstOnly(path) ==
    IF path # <<>> /\ Head(path) = "/" THEN Tail(path) ELSE path

\* str.lstrip('/') on the parsed path.
RECURSIVE lstrip(_)
lstrip(path) ==
    IF path # <<>> /\ Head(path) = "/" THEN lstrip(Tail(path)) ELSE path

\* The store dict of validate_config_file: a set of key/document entries.
BuildStoreDict == { [key |-> SharedKey, doc |-> "shared_schema"] }

\* dict.get: the stored document, or None.
store_get(st, path) ==
    IF \E e \in st : e.key = path
    THEN (CHOOSE e \in st : e.key = path).doc
    ELSE None

custom_uri_handler(st, uri) ==
    IF uri.scheme = ""
    THEN store_get(st, lstrip(uri.path))
    ELSE None

\* A same-document pointer is resolved by the evaluator inside the base
\* schema; any other reference goes through the store and the handler.
Resolves(st, uri) ==
    uri = FragmentRef \/ custom_uri_handler(st, uri) # None

\* validator.validate(config): what it raises, the first failure the
\* evaluator meets.  An unresolved reference raises an exception that is
\* not a ValidationError, whatever violations lie behind it.
ValidateRaises(st, doc) ==
    IF ~Resolves(st, doc.ref) THEN "RefResolutionError"
    ELSE IF doc.violations > 0 THEN "ValidationError"
    ELSE "none"

\* validate() raises one ValidationError per invalid document, which the
\* caller prints as one "Error:" line.
ReportedErrors(k) == IF k > 0 THEN 1 ELSE 0

\* "if config is None: continue"
IsEmptyDocument(doc) == doc.kind = "null"

\* Variant: only "except ValidationError", no "except Exception".
Handled_ValidationErrorOnly(e) == e = "ValidationError"

\* The try/except around the body of validate_config_file: "except
\* ValidationError" then "except Exception" take every exception raised.
Handled(e) == e = "ValidationError" \/ e \in {"YAMLError", "LoadError", "RefResolutionError"}

HandlerKind(e) == IF e = "ValidationError" THEN "invalid" ELSE "error"

\* Variant: a handler that returns True.
HandlerVerdict_True == TRUE

\* Both handlers "return False".
HandlerVerdict == FALSE

\* --------------------------------------------------------------- discovery
IsConfigSuffix(ext, suffix) == suffix = ext

ConfigExtensions == <<"-config.yaml", "-config.yml">>

\* Path.rglob('*' + ext): the matching paths, in the order the directory
\* walk yields them.
rglob(ext) == Orderings({ p \in Paths : IsConfigSuffix(ext, tree[p]) })

\* find_config_files: the matches of each extension, appended in turn.
find_config_files ==
    { a \o b : a \in rglob(ConfigExtensions[1]), b \in rglob(ConfigExtensions[2]) }

\* sorted(config_files): insertion into ascending path order.
RECURSIVE Insert(_, _)
Insert(x, s) ==
    IF s = <<>> THEN <<x>>
    ELSE IF x < Head(s) THEN <<x>> \o s
    ELSE <<Head(s)>> \o Insert(x, Tail(s))

RECURSIVE sorted(_)
sorted(files) ==
    IF files = <<>> THEN <<>> ELSE Insert(Head(files), sorted(Tail(files)))

\* Variant: the files iterated as discovered.
IterationOrder_AsDiscovered(files) == files

\* The order main iterates the files in: "for f in sorted(config_files)".
IterationOrder(files) == sorted(files)

\* Variant: main without the empty-list check.
NoConfigFiles_Unchecked(files) == FALSE

\* "if not config_files"
NoConfigFiles(files) == files = <<>>

\* -------------------------------------------------------------------- Init
\* A run that ends in load_schema or at the directory check reads neither
\* shared-definitions.json nor the tree: those inputs are then held at one
\* value.  The legacy script takes no arguments and embeds its schema; it
\* ends before it looks at the directory.
NoTree == [p \in Paths |-> ".yaml"]

Init ==
    /\ script \in {"tools", "legacy"}
    /\ args_schema \in (IF script = "tools" THEN BOOLEAN ELSE {FALSE})
    /\ schemaFile \in (IF script = "tools" THEN FileStates ELSE {"ok"})
    /\ sharedFile \in (IF script = "tools" /\ schemaFile = "ok" THEN FileStates ELSE {"ok"})
    /\ dirExists \in BOOLEAN
    /\ tree \in (IF dirExists /\ schemaFile = "ok" THEN [Paths -> Suffixes] ELSE {NoTree})
    /\ pc = IF script = "tools" THEN "load_schema" ELSE "load_module"
    /\ exited = FALSE
    /\ exit_code = 0
    /\ stdout = <<>>
    /\ config_files = <<>>
    /\ pending = <<>>
    /\ results = <<>>
    /\ file_path = 0
    /\ documents = <<>>
    /\ idx = 0
    /\ all_valid = TRUE
    /\ validated = <<>>
    /\ lines = <<>>
    /\ exc = "none"
    /\ store = {}
    /\ storeBuilds = 0
    /\ arg_uri = <<>>
    /\ resolved = NotCalled

\* sys.exit(code)
Exit(code, msgs) ==
    /\ stdout' = stdout \o msgs
    /\ exited' = TRUE
    /\ exit_code' = code
    /\ pc' = "done"

\* ------------------------------------------------------------ main, startup
\* tools: load_schema(args.schema, args.schema_type)
LoadSchema ==
    /\ pc = "load_schema"
    /\ IF ~args_schema /\ schemaFile = "missing"
       THEN Exit(1, <<Msg("schema_not_found")>>)
       ELSE IF schemaFile # "ok"
       THEN Exit(1, <<Msg("error_loading_schema")>>)
       ELSE /\ pc' = "check_dir"
            /\ UNCHANGED <<exited, exit_code, stdout>>
    /\ UNCHANGED <<env, handler, config_files, pending, results, call>>

\* legacy: the module-level statement "schema = {...}" is evaluated when
\* the script is loaded; '"additionalProperties": true' raises NameError.
\* The traceback goes to stderr, nothing is printed, the status is 1.
LoadLegacyModule ==
    /\ pc = "load_module"
    /\ script = "legacy"
    /\ Exit(1, <<>>)
    /\ UNCHANGED <<env, handler, config_files, pending, results, call>>

CheckDirectory ==
    /\ pc = "check_dir"
    /\ IF ~dirExists
       THEN Exit(1, <<Msg("directory_not_found")>>)
       ELSE /\ pc' = "find"
            /\ UNCHANGED <<exited, exit_code, stdout>>
    /\ UNCHANGED <<env, handler, config_files, pending, results, call>>

FindConfigFiles ==
    /\ pc = "find"
    /\ \E found \in find_config_files : config_files' = found
    /\ pc' = "check_files"
    /\ UNCHANGED <<env, handler, exited, exit_code, stdout, pending, results, call>>

\* "if not config_files: ... sys.exit(1)", else the "Validating n" line and
\* the start of the iteration over the files.
CheckConfigFiles ==
    /\ pc = "check_files"
    /\ IF NoConfigFiles(config_files)
       THEN /\ Exit(1, <<Msg("no_config_files")>>)
            /\ UNCHANGED pending
       ELSE /\ stdout' = Append(stdout, [Msg("validating") EXCEPT !.total = Len(config_files)])
            /\ pending' = IterationOrder(config_files)
            /\ pc' = "next_file"
            /\ UNCHANGED <<exited, exit_code>>
    /\ UNCHANGED <<env, handler, config_files, results, call>>

\* ------------------------------------------- tools: validate_config_file
\* open(file_path) and list(yaml.safe_load_all(f)): every segment is parsed
\* before anything else happens; one malformed segment raises.
OpenConfigFile ==
    /\ pc = "next_file"
    /\ script = "tools"
    /\ pending # <<>>
    /\ file_path' = Head(pending)
    /\ pending' = Tail(pending)
    /\ \E content \in FileContents :
         IF content.wellformed
         THEN /\ documents' = content.docs
              /\ exc' = "none"
              /\ pc' = "build_store"
         ELSE /\ documents' = <<>>
              /\ exc' = "YAMLError"
              /\ pc' = "except"
    /\ idx' = 0
    /\ all_valid' = TRUE
    /\ validated' = <<>>
    /\ lines' = <<>>
    /\ store' = {}
    /\ UNCHANGED <<env, handler, exited, exit_code, stdout, config_files, results, storeBuilds>>

\* shared-definitions.json is read and parsed, the store, the resolver and
\* the validator are created; all_valid = True.
BuildStore ==
    /\ pc = "build_store"
    /\ IF sharedFile = "ok"
       THEN /\ store' = BuildStoreDict
            /\ storeBuilds' = storeBuilds + 1
            /\ pc' = "loop"
            /\ UNCHANGED exc
       ELSE /\ exc' = "LoadError"
            /\ pc' = "except"
            /\ UNCHANGED <<store, storeBuilds>>
    /\ UNCHANGED <<env, handler, exited, exit_code, stdout, config_files, pending, results,
                   file_path, documents, idx, all_valid, validated, lines>>

\* One iteration of "for i, config in enumerate(documents)" on an empty
\* document.
SkipEmptyDocument ==
    /\ pc = "loop"
    /\ idx < Len(documents)
    /\ IsEmptyDocument(documents[idx + 1])
    /\ idx' = idx + 1
    /\ UNCHANGED <<env, handler, run, file_path, documents, all_valid, validated, lines, exc,
                   store, storeBuilds>>

\* One iteration on a non-empty document: validator.validate(config), with
\* the inner "except ValidationError".
ValidateDocument ==
    /\ pc = "loop"
    /\ idx < Len(documents)
    /\ ~IsEmptyDocument(documents[idx + 1])
    /\ validated' = Append(validated, idx + 1)
    /\ LET doc == documents[idx + 1]
           raised == ValidateRaises(store, doc)
       IN  IF raised = "none"
           THEN /\ idx' = idx + 1
                /\ UNCHANGED <<pc, all_valid, lines, exc>>
           ELSE IF raised = "ValidationError"
           THEN /\ lines' = Append(lines, Line(file_path, "doc_invalid", idx + 1,
                                               ReportedErrors(doc.violations), raised))
                /\ all_valid' = FALSE
                /\ idx' = idx + 1
                /\ UNCHANGED <<pc, exc>>
           ELSE /\ exc' = raised
                /\ pc' = "except"
                /\ UNCHANGED <<idx, all_valid, lines>>
    /\ UNCHANGED <<env, handler, exited, exit_code, stdout, config_files, pending, results,
                   file_path, documents, store, storeBuilds>>

\* The locals of validate_config_file are gone once it returns.
ReturnToMain ==
    /\ file_path' = 0
    /\ documents' = <<>>
    /\ idx' = 0
    /\ all_valid' = TRUE
    /\ validated' = <<>>
    /\ lines' = <<>>
    /\ exc' = "none"
    /\ store' = {}
    /\ pc' = "next_file"

\* After the loop: the "Valid" line and "return True", or "return False".
ReturnFromValidate ==
    /\ pc = "loop"
    /\ idx = Len(documents)
    /\ results' = Append(results,
                         IF all_valid
                         THEN Result(file_path, TRUE, "valid", "none")
                         ELSE Result(file_path, FALSE, "invalid", "none"))
    /\ ReturnToMain
    /\ UNCHANGED <<env, handler, exited, exit_code, stdout, config_files, pending, storeBuilds>>

\* The outer handlers of validate_config_file: print the file and the
\* exception, return False.  An exception neither handler takes would
\* leave main with a traceback on stderr and status 1.
HandleException ==
    /\ pc = "except"
    /\ IF Handled(exc)
       THEN /\ results' = Append(results,
                                 Result(file_path, HandlerVerdict, HandlerKind(exc), exc))
            /\ ReturnToMain
            /\ UNCHANGED <<exited, exit_code, stdout>>
       ELSE /\ Exit(1, <<>>)
            /\ UNCHANGED <<results, file_path, documents, idx, all_valid, validated,
                           lines, exc, store>>
    /\ UNCHANGED <<env, handler, config_files, pending, storeBuilds>>

\* ------------------------------------------------------------ main, summary
\* Variant: every call counted, whatever it returned.
ValidCount_EveryFile == Len(results)

\* sum(...) over the returned booleans.
ValidCount == Cardinality({ k \in 1..Len(results) : results[k].verdict })

Summary ==
    /\ pc = "next_file"
    /\ pending = <<>>
    /\ stdout' = Append(stdout, [kind |-> "summary", valid |-> ValidCount,
                                 total |-> Len(config_files)])
    /\ exited' = TRUE
    /\ exit_code' = 0
    /\ pc' = "done"
    /\ UNCHANGED <<env, handler, config_files, pending, results, call>>

\* ------------------------------------------- custom_uri_handler, one call
\* The handler of a validator that has been built, called with any
\* reference string.
HandlerInit ==
    /\ script = "tools"
    /\ args_schema = FALSE
    /\ schemaFile = "ok"
    /\ sharedFile = "ok"
    /\ dirExists = TRUE
    /\ tree = [p \in Paths |-> "-config.yaml"]
    /\ pc = "handler"
    /\ exited = FALSE
    /\ exit_code = 0
    /\ stdout = <<>>
    /\ config_files = <<1>>
    /\ pending = <<>>
    /\ results = <<>>
    /\ file_path = 1
    /\ documents = <<>>
    /\ idx = 0
    /\ all_valid = TRUE
    /\ validated = <<>>
    /\ lines = <<>>
    /\ exc = "none"
    /\ store = BuildStoreDict
    /\ storeBuilds = 1
    /\ arg_uri \in RefStrings
    /\ resolved = NotCalled

CallHandler ==
    /\ pc = "handler"
    /\ resolved' = custom_uri_handler(store, urlparse(arg_uri))
    /\ pc' = "handler_done"
    /\ UNCHANGED <<env, exited, exit_code, stdout, config_files, pending, results,
                   call, arg_uri>>

HandlerNext == CallHandler

HandlerSpec == HandlerInit /\ [][HandlerNext]_vars

Next ==
    \/ LoadSchema
    \/ LoadLegacyModule
    \/ CheckDirectory
    \/ FindConfigFiles
    \/ CheckConfigFiles
    \/ OpenConfigFile
    \/ BuildStore
    \/ SkipEmptyDocument
    \/ ValidateDocument
    \/ ReturnFromValidate
    \/ HandleException
    \/ Summary

Spec == Init /\ [][Next]_vars

\* ------------------------------------------------------------------ claims
ConfigPaths == { p \in Paths : tree[p] \in Range(ConfigExtensions) }

SummaryPrinted == \E k \in 1..Len(stdout) : stdout[k].kind = "summary"

\* C1: a run that found at least one candidate file never stops before the
\* summary: it can always take a step until it has exited, and when it has
\* exited the summary is the last thing printed, every discovered file has
\* its result, and the exit code is 0, whatever the results are.
C1_CompletedRunExitsZero ==
    config_files # <<>> =>
        IF exited
        THEN /\ exit_code = 0
             /\ Last(stdout).kind = "summary"
             /\ Len(results) = Len(config_files)
        ELSE ENABLED Next

C1_Witness ==
    /\ exited
    /\ exit_code = 0
    /\ \E a, b \in 1..Len(results) :
         results[a].outcome = "error" /\ results[b].outcome = "invalid"

\* C2: when the base schema cannot be loaded, the directory does not exist
\* or no candidate file exists, no config file is ever validated, no summary
\* is printed, and the run exits with code 1 after the matching diagnostic.
StartupFails ==
    /\ script = "tools"
    /\ \/ schemaFile # "ok"
       \/ ~dirExists
       \/ ConfigPaths = {}

StartupDiagnostics ==
    IF schemaFile # "ok"
    THEN {"schema_not_found", "error_loading_schema"}
    ELSE IF ~dirExists THEN {"directory_not_found"}
    ELSE {"no_config_files"}

C2_StartupFailureExitsOne ==
    StartupFails =>
        /\ results = <<>>
        /\ file_path = 0
        /\ storeBuilds = 0
        /\ ~SummaryPrinted
        /\ IF exited
           THEN exit_code = 1 /\ Last(stdout).kind \in StartupDiagnostics
           ELSE ENABLED Next

C2_Witness ==
    /\ script = "tools"
    /\ exited
    /\ exit_code = 1
    /\ dirExists
    /\ Last(stdout).kind = "no_config_files"

\* C3 (as claimed): when the base schema or the shared-definitions document
\* is missing or unparsable, no config file is ever opened and the run
\* exits with a non-zero code.
C3_LoadErrorIsFatal ==
    (script = "tools" /\ (schemaFile # "ok" \/ sharedFile # "ok")) =>
        /\ file_path = 0
        /\ results = <<>>
        /\ exited => exit_code # 0

\* The validator of the current file exists and its loop over the
\* documents has been left, normally or by an exception.
LoopLeft ==
    /\ script = "tools"
    /\ store # {}
    /\ \/ pc = "loop" /\ idx = Len(documents)
       \/ pc = "except"

\* C4 (as claimed): when the loop over a file's documents is left, every
\* non-empty document of the file has been handed to the validator, and
\* every reported failure carries the 1-based position of an invalid
\* document.
C4_EveryDocumentValidated ==
    LoopLeft =>
        /\ \A j \in 1..Len(documents) :
             ~IsEmptyDocument(documents[j]) => j \in Range(validated)
        /\ \A k \in 1..Len(lines) :
             /\ lines[k].doc \in 1..Len(documents)
             /\ documents[lines[k].doc].violations > 0

\* C5 (as claimed): an empty document is never handed to the validator and
\* never reported, and a file whose documents are all empty does not end in
\* an error report.
AllDocumentsEmpty ==
    /\ documents # <<>>
    /\ \A j \in 1..Len(documents) : IsEmptyDocument(documents[j])

C5_EmptyDocumentsSkipped ==
    script = "tools" =>
        /\ \A j \in Range(validated) : ~IsEmptyDocument(documents[j])
        /\ \A k \in 1..Len(lines) : ~IsEmptyDocument(documents[lines[k].doc])
        /\ AllDocumentsEmpty => (pc # "except" /\ all_valid)

\* C6 (as claimed): validating a document reports one error for each
\* independent violation in it: the report of a document that holds k
\* violations counts k errors.
C6_OneErrorPerViolation ==
    \A k \in 1..Len(lines) :
        lines[k].kind = "doc_invalid" =>
            lines[k].errors = documents[lines[k].doc].violations

\* C7 (as claimed): a document whose reference is absent from the store
\* does not stop the file: no non-empty document after it is left
\* unvalidated, and the process does not end with a traceback.
Unresolved(j) == ~Resolves(store, documents[j].ref)

C7_UnresolvedReferenceReported ==
    script = "tools" =>
        \A j \in Range(validated) :
            (store # {} /\ Unresolved(j)) =>
                /\ ~(exited /\ exit_code # 0)
                /\ pc = "except" =>
                     \A k \in (j + 1)..Len(documents) : IsEmptyDocument(documents[k])

\* C8: a file with a malformed segment raises before any document is
\* validated; its result names the file and the parser's exception, with
\* verdict false; and the run still gives every discovered file its result,
\* prints the summary and exits with 0.
ParseErrors == { k \in 1..Len(results) : results[k].detail = "YAMLError" }

C8_ParseErrorPerFile ==
    /\ (pc = "except" /\ exc = "YAMLError") =>
         /\ ~exited
         /\ validated = <<>>
         /\ file_path \in Range(config_files)
    /\ \A k \in ParseErrors :
         /\ results[k].verdict = FALSE
         /\ results[k].outcome = "error"
         /\ results[k].file \in Range(config_files)
    /\ (exited /\ ParseErrors # {}) =>
         /\ exit_code = 0
         /\ Last(stdout).kind = "summary"
         /\ Len(results) = Len(config_files)
         /\ { results[k].file : k \in 1..Len(results) } = Range(config_files)

C8_Witness ==
    /\ exited
    /\ \E a, b \in 1..Len(results) :
         results[a].detail = "YAMLError" /\ results[b].verdict

\* C9 (as claimed): the store is built once, before the first config file
\* is opened, and holds the same entries while files are validated.
C9_StoreBuiltOnce ==
    script = "tools" =>
        /\ storeBuilds <= 1
        /\ file_path # 0 => (storeBuilds = 1 /\ store = BuildStoreDict)

\* C10: the files are validated one at a time in strictly ascending path
\* order, so none twice, and a completed run has validated exactly the
\* discovered files.
ValidatedOrder ==
    [k \in 1..Len(results) |-> results[k].file]
        \o (IF file_path # 0 THEN <<file_path>> ELSE <<>>)

C10_AscendingOrderExactlyOnce ==
    /\ \A a, b \in 1..Len(ValidatedOrder) :
         a < b => ValidatedOrder[a] < ValidatedOrder[b]
    /\ (exited /\ exit_code = 0) => Range(ValidatedOrder) = ConfigPaths

\* C11: the handler returns the stored document exactly when the scheme of
\* the reference is empty and its path, without its leading separators, is
\* a key of the store; in every other case, a non-empty scheme included, it
\* returns None.
LeadingSeparators(path) ==
    CHOOSE n \in 0..Len(path) :
        /\ \A k \in 1..n : path[k] = "/"
        /\ n = Len(path) \/ path[n + 1] # "/"

StrippedPath(path) == SubSeq(path, LeadingSeparators(path) + 1, Len(path))

StoreKeys == { e.key : e \in BuildStoreDict }

C11_HandlerLookup ==
    pc = "handler_done" =>
        LET parsed == urlparse(arg_uri)
            key    == StrippedPath(parsed.path)
        IN  /\ (parsed.scheme = "" /\ key \in StoreKeys) =>
                 \E e \in BuildStoreDict : e.key = key /\ resolved = e.doc
            /\ (parsed.scheme # "" \/ key \notin StoreKeys) => resolved = None

C11_Witness ==
    /\ pc = "handler_done"
    /\ resolved = "shared_schema"
    /\ LeadingSeparators(urlparse(arg_uri).path) >= 2

\* C12: a call of validate_config_file returns True exactly when it ends
\* without an exception in flight and every non-empty document of the file
\* was validated without a violation; a completed run prints as valid count
\* the number of discovered files whose call returned True and as total the
\* number of discovered files, so the valid count is at most the total.
NoDocumentFailed ==
    \A j \in 1..Len(documents) :
        ~IsEmptyDocument(documents[j]) =>
            j \in Range(validated) /\ documents[j].violations = 0

VerdictStep ==
    (script = "tools" /\ Len(results') = Len(results) + 1) =>
        /\ Last(results').file = file_path
        /\ Last(results').verdict = (pc = "loop" /\ exc = "none" /\ NoDocumentFailed)

ValidFiles ==
    { p \in ConfigPaths : \E k \in 1..Len(results) : results[k].file = p /\ results[k].verdict }

SummaryAccounting ==
    (exited /\ exit_code = 0) =>
        /\ Last(stdout).kind = "summary"
        /\ Last(stdout).valid = Cardinality(ValidFiles)
        /\ Last(stdout).total = Cardinality(ConfigPaths)
        /\ Last(stdout).valid <= Last(stdout).total

C12_SummaryAccounting == [][VerdictStep]_vars /\ []SummaryAccounting

C12_Witness ==
    /\ script = "tools"
    /\ exited
    /\ exit_code = 0
    /\ Last(stdout).valid = 1
    /\ Last(stdout).total = 2

C10_Witness ==
    /\ exited
    /\ exit_code = 0
    /\ config_files = <<2, 1>>
    /\ Len(results) = 2
    /\ results[1].file = 1
    /\ results[2].file = 2
====
